---- MODULE Spec2Model ----
(***************************************************************************)
(* twtscrape: the user-timeline crawl.                                     *)
(*                                                                         *)
(*   src/src/user.rs        User::new             (profile snapshot)       *)
(*   src/src/usertweets.rs  UserTweetsAndReplies::scroll_user_timeline     *)
(*                          UserTweetAndRepliesRequest::scroll             *)
(*                          ::filter_cursor, ::json_request_filter_errors  *)
(*                                                                         *)
(* The crawl is one async function.  Every `.await` is a suspension point: *)
(* the model has one action per resumption, which takes the response of    *)
(* the request in flight and runs the code up to the next `.await` or to   *)
(* the function's return.  The transport (Scraper::api_req) and the thread *)
(* expander (Tweet::parse_thread) are the environment: their answers are   *)
(* drawn from the bounded sets below.  The decoder of a timeline entry     *)
(* (impl Deserialize for Entry) is a function of the object it reads and   *)
(* has a specification of its own, DecodeSpec.                             *)
(***************************************************************************)
EXTENDS Integers, Sequences, FiniteSets, TLC

VARIABLES
    pc,                  \* the `.await` the function is suspended at, or "returned"
    caller,              \* the function that was called: the entry point
    inflight,            \* network requests issued and not yet answered
    log,                 \* answered requests, in order: [req, resp]
    req,                 \* User::new: the decoded UserRequest
    user,                \* scroll_user_timeline: the User
    first_request,       \* scroll_user_timeline: the page fetched with no cursor
    scroll_calls,        \* the first_cursor of every call of scroll
    requests,            \* scroll: VecDeque of fetched pages
    cursor_counter,      \* scroll: the cursor of the next request
    break_on_next,       \* scroll: the lookahead flag
    timelines_requests,  \* scroll_user_timeline: the pages to parse
    idx,                 \* position of the loop over the entries (1-based)
    stage,               \* which parse_thread call of the entry is awaited
    tweets,              \* the store
    users,
    result,              \* what the called function returned
    de                   \* Entry::deserialize: the object read and its result

vars == <<pc, caller, inflight, log, req, user, first_request, scroll_calls,
          requests, cursor_counter, break_on_next, timelines_requests,
          idx, stage, tweets, users, result, de>>

-----------------------------------------------------------------------------
(* Bounds *)

\* pages one call of scroll may receive
MaxScroll == 3

-----------------------------------------------------------------------------
(* Option / Result *)

None == [tag |-> "None"]
Some(v) == [tag |-> "Some", val |-> v]

Pending == [tag |-> "Pending"]
Err(e) == [tag |-> "Err", err |-> e]

TransportError == [kind |-> "Transport"]
TwitterJSONError(code, message) ==
    [kind |-> "TwitterJSONError", code |-> code, message |-> message]
TwitterBadRestId(rest_id) == [kind |-> "TwitterBadRestId", rest_id |-> rest_id]
TwitterBadTimeParse == [kind |-> "TwitterBadTimeParse"]
UserResultError == [kind |-> "UserResultError"]
ParseIntError == [kind |-> "ParseIntError"]

-----------------------------------------------------------------------------
(* Strings the code looks into are sequences of characters *)

StartsWith(s, prefix) ==
    /\ Len(s) >= Len(prefix)
    /\ SubSeq(s, 1, Len(prefix)) = prefix

Digits == {"0", "1", "2", "3", "4", "5", "6", "7", "8", "9"}

DigitVal(c) ==
    CASE c = "0" -> 0 [] c = "1" -> 1 [] c = "2" -> 2 [] c = "3" -> 3
      [] c = "4" -> 4 [] c = "5" -> 5 [] c = "6" -> 6 [] c = "7" -> 7
      [] c = "8" -> 8 [] c = "9" -> 9

RECURSIVE ParseDigits(_, _)
ParseDigits(s, acc) ==
    IF s = <<>> THEN acc
    ELSE ParseDigits(Tail(s), acc * 10 + DigitVal(Head(s)))

\* str::parse::<u64>; the strings of RestIds are too short to overflow a u64
ParseU64(s) ==
    IF s = <<>> \/ \E i \in 1..Len(s) : s[i] \notin Digits
    THEN None
    ELSE Some(ParseDigits(s, 0))

-----------------------------------------------------------------------------
(* The error envelope *)

TWITTER_IGNORE_ERROR_CODE == 37

Error(code, message) == [code |-> code, message |-> message]

E37 == Error(37, "x")
E99 == Error(99, "rate limited")

ErrorLists == {<<>>, <<E37>>, <<E99>>, <<E37, E99>>, <<E99, E37>>, <<E37, E37>>}

\* Vec::first
First(v) == IF v = <<>> THEN None ELSE Some(v[1])

\* the envelope check looking at the last error in the place of the first
UserNewCheckLastError(errors) ==
    IF errors # <<>> /\ errors[Len(errors)].code # TWITTER_IGNORE_ERROR_CODE
    THEN Some(TwitterJSONError(errors[Len(errors)].code, errors[Len(errors)].message))
    ELSE None

\* User::new with no envelope check
UserNewCheckErrorsSkipped(errors) == None

\* User::new, "check for errors": Some(error) when the envelope is fatal
UserNewCheckErrors(errors) ==
    IF First(errors) # None /\ First(errors).val.code # TWITTER_IGNORE_ERROR_CODE
    THEN Some(TwitterJSONError(First(errors).val.code, First(errors).val.message))
    ELSE None

\* the envelope check failing on the first error, anywhere in the list, with a
\* code other than 37
json_request_filter_errors_any(self) ==
    LET bad == {i \in 1..Len(self.errors) : self.errors[i].code # 37} IN
    IF bad # {}
    THEN LET i == CHOOSE i \in bad : \A j \in bad : i <= j
         IN  Some(TwitterJSONError(self.errors[i].code, self.errors[i].message))
    ELSE None

\* the envelope check accepting every page
json_request_filter_errors_none(self) == None

\* UserTweetAndRepliesRequest::json_request_filter_errors
json_request_filter_errors(self) ==
    IF First(self.errors) # None /\ First(self.errors).val.code # 37
    THEN Some(TwitterJSONError(First(self.errors).val.code,
                               First(self.errors).val.message))
    ELSE None

-----------------------------------------------------------------------------
(* The profile lookup *)

Handles == {"alice", "bob"}

\* rest_id strings the lookup may carry: "", "0", "7", "42", "4x"
RestIds == {<<>>, <<"0">>, <<"7">>, <<"4", "2">>, <<"4", "x">>}

GoodJoinDate == "Fri Oct 09 08:16:38 +0000 2015"
JoinDates == {GoodJoinDate, "yesterday"}

\* DateTime::parse_from_str(created, JOINDATE_PARSE_STR) succeeds
JoinDateParses(created) == created = GoodJoinDate

\* TwtResult
AvailableUser(rest_id, created) ==
    [variant |-> "User", rest_id |-> rest_id, created |-> created]
UserUnavailable == [variant |-> "UserUnavailable"]

TwtResults ==
    {UserUnavailable}
        \cup {AvailableUser(r, c) : r \in RestIds, c \in JoinDates}

\* UserRequest
UserRequests ==
    {[tag |-> "UserRequest", errors |-> e, result |-> r] :
        e \in ErrorLists, r \in TwtResults}

\* the rest_id guard of User::new: TRUE when it returns TwitterBadRestId
UserNewRejectsRestId(rest_id) == (~(rest_id = <<>>)) \/ rest_id = <<"0">>

-----------------------------------------------------------------------------
(* Timeline pages *)

Cursors == {"c1", "c2"}

Bottom == <<"B", "o", "t", "t", "o", "m">>
Top == <<"T", "o", "p">>

\* TweetResults
TweetOk(rest_id) == [variant |-> "Ok", rest_id |-> rest_id]
Tombstone == [variant |-> "Tombstone"]

\* Entry
EntryTweet(tweet_results) == [kind |-> "Tweet", tweet_results |-> tweet_results]
EntryHomeConversation(items) == [kind |-> "HomeConversation", items |-> items]
EntryCursor(cursor_type, value) ==
    [kind |-> "Cursor", cursor_type |-> cursor_type, value |-> value]

\* Instruction
TimelineClearCache == [type |-> "TimelineClearCache"]
TimelineAddEntries(entries) == [type |-> "TimelineAddEntries", entries |-> entries]
TimelinePinEntry(tweet_results) ==
    [type |-> "TimelinePinEntry", tweet_results |-> tweet_results]

\* UserTweetAndRepliesRequest
Page(errors, instructions) ==
    [tag |-> "Page", errors |-> errors, instructions |-> instructions]

\* the instruction lists the timeline endpoint may answer with
Bodies ==
    { <<>>,
      <<TimelineAddEntries(<<EntryTweet(TweetOk("t1")),
                             EntryCursor(Top, "c2"),
                             EntryCursor(Bottom, "c1")>>)>>,
      <<TimelineClearCache,
        TimelinePinEntry(TweetOk("t1")),
        TimelineAddEntries(<<EntryTweet(Tombstone),
                             EntryTweet(TweetOk("t2")),
                             EntryCursor(Bottom \o <<"X">>, "c2"),
                             EntryCursor(Bottom, "c1")>>)>>,
      <<TimelineAddEntries(<<EntryHomeConversation(<<TweetOk("t1"), TweetOk("t2")>>),
                             EntryCursor(Top, "c2")>>)>>,
      <<TimelineAddEntries(<<EntryHomeConversation(<<Tombstone, TweetOk("t2")>>),
                             EntryTweet(TweetOk("t1"))>>)>>,
      <<TimelineAddEntries(<<EntryHomeConversation(<<TweetOk("t1")>>),
                             EntryHomeConversation(<<TweetOk("t2"), TweetOk("t1"),
                                                     TweetOk("t2")>>),
                             EntryCursor(Bottom, "c2")>>),
        TimelineAddEntries(<<EntryHomeConversation(<<>>),
                             EntryCursor(Bottom, "c1")>>)>>,
      <<TimelineAddEntries(<<EntryHomeConversation(<<TweetOk("t1"), Tombstone>>),
                             EntryTweet(TweetOk("t2"))>>)>> }

\* the body of the answers that carry errors
ErrorBody == <<TimelineAddEntries(<<EntryTweet(TweetOk("t2"))>>)>>

Pages ==
    {Page(<<>>, b) : b \in Bodies}
        \cup {Page(e, ErrorBody) : e \in ErrorLists \ {<<>>}}

RECURSIVE AddEntriesWithPin(_)
\* the entries of the page with the pinned tweet taken as an entry of its own
AddEntriesWithPin(instructions) ==
    IF instructions = <<>> THEN <<>>
    ELSE (CASE Head(instructions).type = "TimelineAddEntries" ->
                  Head(instructions).entries
            [] Head(instructions).type = "TimelinePinEntry" ->
                  <<EntryTweet(Head(instructions).tweet_results)>>
            [] OTHER -> <<>>) \o AddEntriesWithPin(Tail(instructions))

RECURSIVE AddEntries(_)
\* the entries of the page's "add entries" instructions, in order
\* (for inst in instructions { if let TimelineAddEntries(add) = inst { for entry in add.entries })
AddEntries(instructions) ==
    IF instructions = <<>> THEN <<>>
    ELSE (IF Head(instructions).type = "TimelineAddEntries"
          THEN Head(instructions).entries
          ELSE <<>>) \o AddEntries(Tail(instructions))

IsBottomCursor(entry) ==
    entry.kind = "Cursor" /\ StartsWith(entry.cursor_type, Bottom)

\* filter_cursor without the test of the cursor type
filter_cursor_any_type(self) ==
    LET es == AddEntries(self.instructions)
        hits == {i \in 1..Len(es) : es[i].kind = "Cursor"}
    IN  IF hits = {} THEN None
        ELSE Some(es[CHOOSE i \in hits : \A j \in hits : i <= j].value)

\* filter_cursor returning the last bottom cursor in the place of the first
filter_cursor_last_bottom(self) ==
    LET es == AddEntries(self.instructions)
        hits == {i \in 1..Len(es) : IsBottomCursor(es[i])}
    IN  IF hits = {} THEN None
        ELSE Some(es[CHOOSE i \in hits : \A j \in hits : i >= j].value)

\* UserTweetAndRepliesRequest::filter_cursor
filter_cursor(self) ==
    LET es == AddEntries(self.instructions)
        hits == {i \in 1..Len(es) : IsBottomCursor(es[i])}
    IN  IF hits = {} THEN None
        ELSE Some(es[CHOOSE i \in hits : \A j \in hits : i <= j].value)

-----------------------------------------------------------------------------
(* The thread expander, Tweet::parse_thread: Ok((tweets, users)) or Err *)

ThreadOk(twts, usrs) == [tag |-> "Ok", tweets |-> twts, users |-> usrs]
ThreadErr == [tag |-> "Err"]

\* every thread holds its root "t0" and the author "u1"
ThreadOf(id) ==
    IF id = "t1" THEN ThreadOk({"t0", "t1"}, {"u1"})
    ELSE ThreadOk({"t0", id}, {"u1", "u2"})

-----------------------------------------------------------------------------
(* Requests *)

\* twitter_request_url_handle
UserByScreenNameReq(handle) == [kind |-> "UserByScreenName", handle |-> handle]
RedirectReq == [kind |-> "redirect"]
\* twitter_request_url_user_tweet_and_replies
UserTweetsAndRepliesReq(id, cursor) ==
    [kind |-> "UserTweetsAndReplies", id |-> id, cursor |-> cursor]
ParseThreadReq(id) == [kind |-> "parse_thread", id |-> id]

TransportFailure == [tag |-> "TransportFailure"]

\* an answered request, with the position of the parse loop it was issued at
Event(request, response, i, stage_) ==
    [req |-> request, resp |-> response, idx |-> i, stage |-> stage_]

-----------------------------------------------------------------------------
(* Helpers of the code *)

Ok(users_, tweets_) == [tag |-> "Ok", users |-> users_, tweets |-> tweets_]
OkRequests(requests_) == [tag |-> "Ok", requests |-> requests_]

\* push_back in the place of push_front
push_back(deque, page) == deque \o <<page>>

\* VecDeque::push_front; the page is read again by filter_cursor after it
\* (line 265), so the deque holds a copy of it
push_front(deque, page) == <<page>> \o deque

\* a break after every page, as a page cap of one would make it
ScrollBreaksAlways(flag) == TRUE

\* the break test with the flag inverted
ScrollBreaksInverted(flag) == ~flag

\* scroll: if break_on_next { break }
ScrollBreaks(flag) == flag

\* the cursor of the walker left as it was, whatever the page carries
NextCursorStale(cursor, fc) == cursor

\* the cursor of the walker cleared when the page carries none
NextCursorCleared(cursor, fc) == IF fc # None THEN fc.val ELSE ""

\* scroll: match filter_cursor() { Some(bottom) => cursor_counter = bottom,
\* None => .. }: cursor_counter is assigned in the Some arm only
NextCursor(cursor, fc) == IF fc # None THEN fc.val ELSE cursor

\* a merge that keeps only what was added last
append_overwrites(set, other) == other

\* the set merge of the store (tweets.append(&mut twts)): every element of
\* `other` is moved into `set`, which holds an element once
append(set, other) == set \cup other

\* timelines_requests after scroll returned `scrolled`
\* (timelines_requests.append(&mut scroll(..).await?.into()))
AppendScrolled(timelines, scrolled) == timelines \o scrolled

RECURSIVE AllEntries(_)
\* the entries the parse loop walks, in order
\* (for request in timelines_requests { for inst in .. { for entry in .. }}})
AllEntries(pages) ==
    IF pages = <<>> THEN <<>>
    ELSE AddEntries(Head(pages).instructions) \o AllEntries(Tail(pages))

Finished(es) == [done |-> TRUE, idx |-> Len(es) + 1, stage |-> "none", id |-> ""]
Expand(i, stage_, id) == [done |-> FALSE, idx |-> i, stage |-> stage_, id |-> id]

RECURSIVE NextExpansionTombstoneStops(_, _)
\* the loop with a Tombstone Tweet entry ending it (break in the place of
\* continue)
NextExpansionTombstoneStops(es, i) ==
    IF i > Len(es) THEN Finished(es)
    ELSE LET entry == es[i] IN
         CASE entry.kind = "HomeConversation" ->
                IF entry.items # <<>> /\ entry.items[1].variant = "Ok"
                THEN Expand(i, "first", entry.items[1].rest_id)
                ELSE NextExpansionTombstoneStops(es, i + 1)
           [] entry.kind = "Tweet" ->
                IF entry.tweet_results.variant = "Ok"
                THEN Expand(i, "tweet", entry.tweet_results.rest_id)
                ELSE Finished(es)
           [] entry.kind = "Cursor" -> NextExpansionTombstoneStops(es, i + 1)

RECURSIVE NextExpansion(_, _)
\* run the loop from entry i to its next call of Tweet::parse_thread:
\* skips Cursor entries, Tombstone tweets, conversations with no item or with
\* a Tombstone first item
NextExpansion(es, i) ==
    IF i > Len(es) THEN Finished(es)
    ELSE LET entry == es[i] IN
         CASE entry.kind = "HomeConversation" ->
                IF entry.items # <<>> /\ entry.items[1].variant = "Ok"
                THEN Expand(i, "first", entry.items[1].rest_id)
                ELSE NextExpansion(es, i + 1)
           [] entry.kind = "Tweet" ->
                IF entry.tweet_results.variant = "Ok"
                THEN Expand(i, "tweet", entry.tweet_results.rest_id)
                ELSE NextExpansion(es, i + 1)
           [] entry.kind = "Cursor" -> NextExpansion(es, i + 1)

\* Err(why) of parse_thread ending the loop (break in the place of continue)
AfterThreadErrBreaks(es, i) == Finished(es)

\* Err(why) of parse_thread: warn!, continue
AfterThreadErr(es, i) == NextExpansion(es, i + 1)

\* the last boundary expanded whether or not it equals the first
AfterFirstBoundaryAlways(es, i) ==
    LET items == es[i].items
        last == items[Len(items)]
    IN  IF last.variant = "Ok"
        THEN Expand(i, "last", last.rest_id)
        ELSE NextExpansion(es, i + 1)

\* after the first boundary of a conversation was merged: if !equal, the last
AfterFirstBoundary(es, i) ==
    LET items == es[i].items
        first == items[1]
        last == items[Len(items)]
        equal == first = last
    IN  IF ~equal
        THEN IF last.variant = "Ok"
             THEN Expand(i, "last", last.rest_id)
             ELSE NextExpansion(es, i + 1)
        ELSE NextExpansion(es, i + 1)

\* Ok(x) of parse_thread, after the merge
AfterThreadOk(es, i, stage_) ==
    IF stage_ = "first" THEN AfterFirstBoundary(es, i)
    ELSE NextExpansion(es, i + 1)

\* no entry is being decoded
NoDecode == [tag |-> "NoDecode"]

-----------------------------------------------------------------------------
(* Steps shared by the actions *)

\* the called function returns r
Return(r) ==
    /\ pc' = "returned"
    /\ inflight' = {}
    /\ result' = r

\* a request issued next to the ones in flight, not in their place
AwaitJoins(at, q) ==
    /\ pc' = at
    /\ inflight' = inflight \cup {q}
    /\ UNCHANGED result

\* suspend at the `.await` of request q
Await(at, q) ==
    /\ pc' = at
    /\ inflight' = {q}
    /\ UNCHANGED result

\* the parse loop of scroll_user_timeline, run to `next`
ParseLoop(next, tw, us) ==
    /\ tweets' = tw
    /\ users' = us
    /\ idx' = next.idx
    /\ stage' = next.stage
    /\ IF next.done
       THEN Return(Ok(us, tw))
       ELSE Await("parse_thread", ParseThreadReq(next.id))

TheRequest == CHOOSE q \in inflight : TRUE

Answered(response) == log' = Append(log, Event(TheRequest, response, idx, stage))

-----------------------------------------------------------------------------
(* User::new, called by scroll_user_timeline *)

RedirectUrls == {"", "https://example.org/alice"}
Redirected(url) == [tag |-> "Redirect", url |-> url]

\* as_option!(redirect.url().to_string(), "")
AsOption(value, empty) == IF value = empty THEN None ELSE Some(value)

User(id, website) == [id |-> id, website |-> website]

\* resumed with the answer of the profile lookup: envelope check, variant
\* check, rest_id guard, then the redirect request
UserNewRecv ==
    /\ pc = "user_request"
    /\ \E response \in UserRequests \cup {TransportFailure} :
          /\ Answered(response)
          /\ IF response.tag = "TransportFailure"
             THEN /\ Return(Err(TransportError))
                  /\ UNCHANGED req
             ELSE /\ req' = Some(response)
                  /\ IF UserNewCheckErrors(response.errors) # None
                     THEN Return(Err(UserNewCheckErrors(response.errors).val))
                     ELSE IF response.result.variant = "User"
                     THEN IF UserNewRejectsRestId(response.result.rest_id)
                          THEN Return(Err(TwitterBadRestId(response.result.rest_id)))
                          ELSE Await("redirect", RedirectReq)
                     ELSE Return(Err(UserResultError))
    /\ UNCHANGED <<de, caller, user, first_request, scroll_calls, requests,
                   cursor_counter, break_on_next, timelines_requests,
                   idx, stage, tweets, users>>

\* resumed with the answer of the redirect request: join date, id, Ok(User);
\* scroll_user_timeline then requests the first page, with no cursor
RedirectRecv ==
    /\ pc = "redirect"
    /\ \E response \in {Redirected(u) : u \in RedirectUrls} \cup {TransportFailure} :
          /\ Answered(response)
          /\ IF response.tag = "TransportFailure"
             THEN /\ Return(Err(TransportError))
                  /\ UNCHANGED user
             ELSE IF ~JoinDateParses(req.val.result.created)
             THEN /\ Return(Err(TwitterBadTimeParse))
                  /\ UNCHANGED user
             ELSE IF ParseU64(req.val.result.rest_id) = None
             THEN /\ Return(Err(ParseIntError))
                  /\ UNCHANGED user
             ELSE /\ user' = Some(User(ParseU64(req.val.result.rest_id).val,
                                       AsOption(response.url, "")))
                  /\ Await("first_request",
                           UserTweetsAndRepliesReq(user'.val.id, None))
    /\ UNCHANGED <<de, caller, req, first_request, scroll_calls, requests,
                   cursor_counter, break_on_next, timelines_requests,
                   idx, stage, tweets, users>>

-----------------------------------------------------------------------------
(* scroll_user_timeline, after User::new *)

ScrollCall(id, first_cursor) == [id |-> id, first_cursor |-> first_cursor]

\* resumed with the first page: filter_cursor, then scroll or the parse loop
FirstPageRecv ==
    /\ pc = "first_request"
    /\ \E response \in Pages \cup {TransportFailure} :
          /\ Answered(response)
          /\ IF response.tag = "TransportFailure"
             THEN /\ Return(Err(TransportError))
                  /\ UNCHANGED <<first_request, scroll_calls, cursor_counter,
                                 idx, stage, tweets, users>>
             ELSE /\ first_request' = Some(response)
                  /\ IF filter_cursor(response) # None
                     THEN /\ scroll_calls' =
                                Append(scroll_calls,
                                       ScrollCall(user.val.id, filter_cursor(response).val))
                          /\ cursor_counter' = filter_cursor(response).val
                          /\ Await("scroll",
                                   UserTweetsAndRepliesReq(user.val.id,
                                                           Some(cursor_counter')))
                          /\ UNCHANGED <<idx, stage, tweets, users>>
                     ELSE /\ ParseLoop(NextExpansion(AllEntries(timelines_requests), 1),
                                       {}, {})
                          /\ UNCHANGED <<scroll_calls, cursor_counter>>
    /\ UNCHANGED <<de, caller, req, user, requests, break_on_next, timelines_requests>>

\* UserTweetAndRepliesRequest::scroll, one turn of its loop: resumed with a
\* page, filter errors, push_front, break or pick the next cursor and request
ScrollRecv ==
    /\ pc = "scroll"
    /\ Len(requests) < MaxScroll
    /\ \E response \in Pages \cup {TransportFailure} :
          /\ Answered(response)
          /\ IF response.tag = "TransportFailure"
             THEN /\ Return(Err(TransportError))
                  /\ UNCHANGED <<requests, cursor_counter, break_on_next,
                                 timelines_requests, idx, stage, tweets, users>>
             ELSE IF json_request_filter_errors(response) # None
             THEN /\ Return(Err(json_request_filter_errors(response).val))
                  /\ UNCHANGED <<requests, cursor_counter, break_on_next,
                                 timelines_requests, idx, stage, tweets, users>>
             ELSE /\ requests' = push_front(requests, response)
                  /\ IF ScrollBreaks(break_on_next)
                     THEN /\ UNCHANGED <<cursor_counter, break_on_next>>
                          /\ IF caller = "scroll"
                             THEN /\ Return(OkRequests(requests'))
                                  /\ UNCHANGED <<timelines_requests, idx, stage,
                                                 tweets, users>>
                             ELSE /\ timelines_requests' =
                                        AppendScrolled(timelines_requests, requests')
                                  /\ ParseLoop(
                                        NextExpansion(AllEntries(timelines_requests'), 1),
                                        {}, {})
                     ELSE /\ cursor_counter' =
                                NextCursor(cursor_counter, filter_cursor(response))
                          /\ break_on_next' = (filter_cursor(response) = None)
                          /\ Await("scroll",
                                   UserTweetsAndRepliesReq(TheRequest.id,
                                                           Some(cursor_counter')))
                          /\ UNCHANGED <<timelines_requests, idx, stage, tweets, users>>
    /\ UNCHANGED <<de, caller, req, user, first_request, scroll_calls>>

\* resumed with the answer of Tweet::parse_thread: merge or skip, then on
\* with the loop
ThreadRecv ==
    /\ pc = "parse_thread"
    /\ \E response \in {ThreadOf(TheRequest.id), ThreadErr} :
          /\ Answered(response)
          /\ LET es == AllEntries(timelines_requests) IN
             IF response.tag = "Ok"
             THEN ParseLoop(AfterThreadOk(es, idx, stage),
                            append(tweets, response.tweets),
                            append(users, response.users))
             ELSE ParseLoop(AfterThreadErr(es, idx), tweets, users)
    /\ UNCHANGED <<de, caller, req, user, first_request, scroll_calls, requests,
                   cursor_counter, break_on_next, timelines_requests>>

-----------------------------------------------------------------------------
(* Specifications *)

Idle ==
    /\ log = <<>>
    /\ req = None
    /\ user = None
    /\ first_request = None
    /\ scroll_calls = <<>>
    /\ requests = <<>>
    /\ cursor_counter = ""
    /\ break_on_next = FALSE
    /\ timelines_requests = <<>>
    /\ idx = 0
    /\ stage = "none"
    /\ tweets = {}
    /\ users = {}
    /\ result = Pending
    /\ de = NoDecode

\* scroll_user_timeline(scraper, user_handle), suspended in User::new
InitCrawl ==
    /\ Idle
    /\ caller = "scroll_user_timeline"
    /\ pc = "user_request"
    /\ \E handle \in Handles : inflight = {UserByScreenNameReq(handle)}

Next ==
    \/ UserNewRecv
    \/ RedirectRecv
    \/ FirstPageRecv
    \/ ScrollRecv
    \/ ThreadRecv

\* the crawl from its call: scroll_user_timeline with User::new as written
Spec == InitCrawl /\ [][Next]_vars

\* User::new returns an error for every answer of the lookup (NoUserEver
\* below), so under Spec the crawl never gets past it.  CrawlSpec is Spec
\* without the actions that are dead for that reason.
NextUser ==
    \/ UserNewRecv
    \/ RedirectRecv

CrawlSpec == InitCrawl /\ [][NextUser]_vars

\* User::new never returns Ok: no page is requested, no thread expanded
NoUserEver ==
    /\ user = None
    /\ pc \in {"user_request", "redirect", "returned"}
    /\ pc = "returned" => result.tag = "Err"

\* scroll_user_timeline from line 58 on, entered with the User that a
\* successful User::new hands over, suspended at the first page request
InitTimeline ==
    /\ log = <<>>
    /\ req = None
    /\ user = Some(User(42, None))
    /\ first_request = None
    /\ scroll_calls = <<>>
    /\ requests = <<>>
    /\ cursor_counter = ""
    /\ break_on_next = FALSE
    /\ timelines_requests = <<>>
    /\ idx = 0
    /\ stage = "none"
    /\ tweets = {}
    /\ users = {}
    /\ result = Pending
    /\ de = NoDecode
    /\ caller = "scroll_user_timeline"
    /\ pc = "first_request"
    /\ inflight = {UserTweetsAndRepliesReq(42, None)}

NextTimeline ==
    \/ FirstPageRecv
    \/ ScrollRecv
    \/ ThreadRecv

TimelineSpec == InitTimeline /\ [][NextTimeline]_vars

\* UserTweetAndRepliesRequest::scroll(scraper, id, first_cursor) called on
\* its own, suspended at its first request
InitScroll ==
    /\ caller = "scroll"
    /\ pc = "scroll"
    /\ \E first_cursor \in Cursors :
          /\ scroll_calls = <<ScrollCall(42, first_cursor)>>
          /\ cursor_counter = first_cursor
          /\ inflight = {UserTweetsAndRepliesReq(42, Some(first_cursor))}
    /\ log = <<>>
    /\ req = None
    /\ user = None
    /\ first_request = None
    /\ requests = <<>>
    /\ break_on_next = FALSE
    /\ timelines_requests = <<>>
    /\ idx = 0
    /\ stage = "none"
    /\ tweets = {}
    /\ users = {}
    /\ result = Pending
    /\ de = NoDecode

NextScroll == ScrollRecv

ScrollSpec == InitScroll /\ [][NextScroll]_vars

\* scroll with every awaited request answered in the end, by a page or by an
\* error of the transport: the future of api_req completes
ScrollFairSpec == ScrollSpec /\ WF_vars(ScrollRecv)

-----------------------------------------------------------------------------
(* impl Deserialize for Entry: EntryVisitor::visit_map *)

TweetPrefix == <<"t", "w", "e", "e", "t", "-">>
HomeConversationPrefix ==
    <<"h", "o", "m", "e", "C", "o", "n", "v", "e", "r", "s", "a", "t", "i", "o", "n", "-">>
CursorPrefix == <<"c", "u", "r", "s", "o", "r", "-">>

\* the entryId values of the objects read
EntryIds ==
    { TweetPrefix \o <<"1">>,
      HomeConversationPrefix \o <<"1">>,
      CursorPrefix \o <<"1">>,
      <<"p", "r", "o", "m", "o", "-", "1">> }

\* a content value: the struct it is the JSON of, and the Entry made of it
Content(type, entry) == [type |-> type, entry |-> entry]

Contents ==
    { Content("TweetEnt", EntryTweet(TweetOk("t1"))),
      Content("TweetEnt", EntryTweet(Tombstone)),
      Content("HomeConversation", EntryHomeConversation(<<TweetOk("t1")>>)),
      Content("Cursor", EntryCursor(Bottom, "c1")) }

\* a field of the object with a string value, and its content field
StringField(key, string) == [key |-> key, string |-> string]
ContentField(content) == [key |-> "content", content |-> content]

\* the fields an entry object may hold; "__typename" is a key that
\* Field::deserialize does not know
EntryFields ==
    {StringField("entryId", id) : id \in EntryIds}
        \cup {StringField("sortId", <<"1", "7">>)}
        \cup {ContentField(c) : c \in Contents}
        \cup {StringField("__typename", <<"I", "t", "e", "m">>)}

Keys == {f.key : f \in EntryFields}

\* the objects read: every choice and order of fields, a key at most once
EntryObjects ==
    {m \in UNION {[1..n -> EntryFields] : n \in 0..Cardinality(Keys)} :
        \A i, j \in DOMAIN m : i # j => m[i].key # m[j].key}

\* de::Error
missing_field(field) == [kind |-> "missing_field", field |-> field]
unknown_field(field) == [kind |-> "unknown_field", field |-> field]
\* the error of map.next_value()? for a value that is not a T
InvalidValue == [kind |-> "invalid_value"]
\* the error of map.next_key()? when the value of the last key was not read
\* and the MapAccess does not skip it
MapAccessError == [kind |-> "map_access"]

\* the struct the Content arm reads the value as, by the prefix of entry_id
\* (the payload of Tweet, of the conversation variant, of Cursor)
ContentType(entry) ==
    IF StartsWith(entry, TweetPrefix) THEN Some("TweetEnt")
    ELSE IF StartsWith(entry, HomeConversationPrefix) THEN Some("HomeConversation")
    ELSE IF StartsWith(entry, CursorPrefix) THEN Some("Cursor")
    ELSE None

RECURSIVE visit_map(_, _, _, _)
\* EntryVisitor::visit_map as written, from the next key of `map` on.  The
\* Content arm has no `return`: the Ok(Entry::..) and the Err(unknown_variant)
\* it builds are values of expression statements and are dropped, so the only
\* exits of the loop are the `?` of next_key and next_value and the end of
\* the map, where the function returns Err(missing_field("content")).  With
\* no entry_id or an unknown prefix the value of "content" is not read: what
\* the next next_key does then is up to the MapAccess (skips_unread).
visit_map(map, skips_unread, entry_id, sort_id) ==
    IF map = <<>> THEN Err(missing_field("content"))
    ELSE LET key == Head(map).key IN
             CASE key = "entryId" ->
                    visit_map(Tail(map), skips_unread, Some(Head(map).string), sort_id)
               [] key = "sortId" ->
                    visit_map(Tail(map), skips_unread, entry_id, Some(Head(map).string))
               [] key = "content" ->
                    IF entry_id # None /\ ContentType(entry_id.val) # None
                    THEN IF Head(map).content.type = ContentType(entry_id.val).val
                         THEN visit_map(Tail(map), skips_unread, entry_id, sort_id)
                         ELSE Err(InvalidValue)
                    ELSE IF skips_unread
                         THEN visit_map(Tail(map), skips_unread, entry_id, sort_id)
                         ELSE Err(MapAccessError)
               [] OTHER -> Err(unknown_field(key))

\* the decoder called on an object
Decoding(map, skips_unread) ==
    [tag |-> "Decoding", map |-> map, skips_unread |-> skips_unread]

\* Entry::deserialize: visit_map run on the object, from its first key
Deserialize ==
    /\ pc = "deserialize"
    /\ pc' = "returned"
    /\ result' = visit_map(de.map, de.skips_unread, None, None)
    /\ UNCHANGED <<de, caller, inflight, log, req, user, first_request,
                   scroll_calls, requests, cursor_counter, break_on_next,
                   timelines_requests, idx, stage, tweets, users>>

InitDecode ==
    /\ caller = "deserialize"
    /\ pc = "deserialize"
    /\ de \in {Decoding(m, b) : m \in EntryObjects, b \in BOOLEAN}
    /\ inflight = {}
    /\ log = <<>>
    /\ req = None
    /\ user = None
    /\ first_request = None
    /\ scroll_calls = <<>>
    /\ requests = <<>>
    /\ cursor_counter = ""
    /\ break_on_next = FALSE
    /\ timelines_requests = <<>>
    /\ idx = 0
    /\ stage = "none"
    /\ tweets = {}
    /\ users = {}
    /\ result = Pending

NextDecode == Deserialize

DecodeSpec == InitDecode /\ [][NextDecode]_vars

-----------------------------------------------------------------------------
(* What the log shows *)

Returned == pc = "returned"
ReturnedOk == pc = "returned" /\ result.tag = "Ok"

\* the answered requests of one kind, in order
EventsOf(kind) == SelectSeq(log, LAMBDA e : e.req.kind = kind)

\* requests of one kind issued so far, answered or not
NumIssued(kind) ==
    Len(EventsOf(kind)) + Cardinality({q \in inflight : q.kind = kind})

\* the places (instruction, entry) of the entries of a page's "add entries"
AddPlaces(page) ==
    UNION {{<<i, j>> : j \in 1..Len(page.instructions[i].entries)} :
              i \in {i \in 1..Len(page.instructions) :
                        page.instructions[i].type = "TimelineAddEntries"}}

EntryAt(page, p) == page.instructions[p[1]].entries[p[2]]

\* the places of a page's bottom cursors
BottomPlaces(page) ==
    {p \in AddPlaces(page) :
        /\ EntryAt(page, p).kind = "Cursor"
        /\ StartsWith(EntryAt(page, p).cursor_type, Bottom)}

HasBottom(page) == BottomPlaces(page) # {}

\* the value of the first bottom cursor of a page that has one
FirstBottom(page) ==
    LET p == CHOOSE p \in BottomPlaces(page) :
                 \A q \in BottomPlaces(page) :
                     p[1] < q[1] \/ (p[1] = q[1] /\ p[2] <= q[2])
    IN  EntryAt(page, p).value

\* the ids of the resolved Tweet entries of a page's "add entries" instructions
ResolvedTweetIds(page) ==
    {EntryAt(page, p).tweet_results.rest_id :
        p \in {p \in AddPlaces(page) :
                 /\ EntryAt(page, p).kind = "Tweet"
                 /\ EntryAt(page, p).tweet_results.variant = "Ok"}}

\* the successful thread expansions so far
Expansions ==
    {log[i].resp : i \in {i \in 1..Len(log) :
                            log[i].req.kind = "parse_thread" /\ log[i].resp.tag = "Ok"}}

-----------------------------------------------------------------------------
(* Claims *)

\* C1: every fetched page contributes to the result, the first page (fetched
\* with no cursor) included: when the crawl returns its store, the thread
\* expander has been called for every resolved Tweet entry of the first page
\* and the tweets and users it returned are in the store.
C1_FirstPageContributes ==
    (ReturnedOk /\ first_request # None) =>
        \A id \in ResolvedTweetIds(first_request.val) :
            \E i \in 1..Len(log) :
                /\ log[i].req = ParseThreadReq(id)
                /\ log[i].resp.tag = "Ok" =>
                      /\ log[i].resp.tweets \subseteq result.tweets
                      /\ log[i].resp.users \subseteq result.users

\* C2: the walker is called only when the first page carries a bottom cursor,
\* and then once, with that cursor; when the first page carries none, scroll
\* is never called and the first page request stays the only page request.
C2_WalkerOnlyOnFirstCursor ==
    /\ first_request = None => scroll_calls = <<>>
    /\ first_request # None =>
          IF HasBottom(first_request.val)
          THEN scroll_calls = <<ScrollCall(user.val.id, FirstBottom(first_request.val))>>
          ELSE /\ scroll_calls = <<>>
               /\ NumIssued("UserTweetsAndReplies") = 1

\* a first page with cursors but no bottom cursor was answered and the crawl
\* returned without calling the walker
C2_Witness ==
    /\ Returned
    /\ first_request # None
    /\ ~HasBottom(first_request.val)
    /\ \E p \in AddPlaces(first_request.val) :
          EntryAt(first_request.val, p).kind = "Cursor"
    /\ scroll_calls = <<>>

\* C3: against a chain of pages that ends with a page with no bottom cursor,
\* with every fetch succeeding, scroll issues one request per page of the
\* chain and one more, the lookahead, then returns: it never issues a request
\* beyond the lookahead, and it returns only after it.
C3_LookaheadCount ==
    LET ends == {i \in 1..Len(log) :
                    log[i].resp.tag = "Page" /\ ~HasBottom(log[i].resp)}
        end == CHOOSE i \in ends : \A j \in ends : i <= j
    IN  /\ ends # {} =>
              /\ NumIssued("UserTweetsAndReplies") <= end + 1
              /\ Len(log) = end + 1 => Returned
        /\ ReturnedOk =>
              /\ ends # {}
              /\ NumIssued("UserTweetsAndReplies") = end + 1

\* scroll returned after a chain of two pages and the lookahead
C3_Witness ==
    /\ ReturnedOk
    /\ caller = "scroll"
    /\ Len(log) = 3
    /\ HasBottom(log[1].resp)
    /\ ~HasBottom(log[2].resp)

Reverse(seq) == [i \in 1..Len(seq) |-> seq[Len(seq) + 1 - i]]

\* the answers of the answered requests, in the order of the requests
Answers == [i \in 1..Len(log) |-> log[i].resp]

\* C4: the pages scroll returns are the answers of its requests in reverse
\* order of fetching, one per fetch: the last answer first, the first last.
C4_ReverseFetchOrder ==
    /\ pc = "scroll" => requests = Reverse(Answers)
    /\ ReturnedOk => result.requests = Reverse(Answers)

\* scroll returned three pages, the first of them the last one fetched, which
\* differs from the first one fetched
C4_Witness ==
    /\ ReturnedOk
    /\ caller = "scroll"
    /\ Len(result.requests) = 3
    /\ result.requests[1] = log[3].resp
    /\ result.requests[3] = log[1].resp
    /\ log[1].resp # log[3].resp

\* C5: the returned tweets and users are the set unions of what the
\* successful thread expansions of the crawl returned.
C5_StoreIsUnion ==
    ReturnedOk =>
        /\ result.tweets = UNION {x.tweets : x \in Expansions}
        /\ result.users = UNION {x.users : x \in Expansions}

\* the crawl returned after expanding one tweet id twice and another id once:
\* the three expansions share a tweet and a user
C5_Witness ==
    /\ ReturnedOk
    /\ \E i, j, k \in 1..Len(log) :
          /\ i < j
          /\ log[i].req.kind = "parse_thread" /\ log[i].resp.tag = "Ok"
          /\ log[j].req = log[i].req /\ log[j].resp.tag = "Ok"
          /\ log[k].req.kind = "parse_thread" /\ log[k].resp.tag = "Ok"
          /\ log[k].req # log[i].req
          /\ log[k].resp.tweets \cap log[i].resp.tweets # {}
    /\ Cardinality(result.tweets) = 3

\* the entries of the parse loop that call parse_thread when reached
CallsExpander(entry) ==
    \/ entry.kind = "Tweet" /\ entry.tweet_results.variant = "Ok"
    \/ /\ entry.kind = "HomeConversation"
       /\ entry.items # <<>>
       /\ entry.items[1].variant = "Ok"

\* the thread expander failed for a Tweet entry
TweetExpansionFailed ==
    \E i \in 1..Len(log) :
        /\ log[i].req.kind = "parse_thread"
        /\ log[i].stage = "tweet"
        /\ log[i].resp.tag = "Err"

\* C6: a failure of the thread expander for a Tweet entry does not abort the
\* crawl: the store holds the successful expansions and nothing else, every
\* entry of every page is still reached, and the crawl returns Ok with the
\* union of the successful expansions.
C6_ExpansionFailureIsolated ==
    TweetExpansionFailed =>
        /\ tweets = UNION {x.tweets : x \in Expansions}
        /\ users = UNION {x.users : x \in Expansions}
        /\ Returned =>
              /\ result = Ok(users, tweets)
              /\ \A i \in 1..Len(AllEntries(timelines_requests)) :
                    CallsExpander(AllEntries(timelines_requests)[i]) =>
                        \E k \in 1..Len(log) :
                            /\ log[k].req.kind = "parse_thread"
                            /\ log[k].idx = i

\* the crawl returned a non-empty store although the expansion of a Tweet
\* entry failed: an entry after the failed one was expanded
C6_Witness ==
    /\ ReturnedOk
    /\ result.tweets # {}
    /\ \E i, j \in 1..Len(log) :
          /\ log[i].req.kind = "parse_thread"
          /\ log[i].stage = "tweet"
          /\ log[i].resp.tag = "Err"
          /\ log[j].req.kind = "parse_thread"
          /\ log[j].resp.tag = "Ok"
          /\ log[j].idx > log[i].idx

\* the envelope of an answer is fatal: its first error has a code other than 37
FatalEnvelope(errors) == errors # <<>> /\ errors[1].code # 37

\* C7: a timeline page whose first error has a code other than 37 is fatal,
\* for the first page as for the walker's pages: the crawl has failed with
\* the API error of that code and message.
C7_FatalPageEnvelope ==
    \A i \in 1..Len(log) :
        (/\ log[i].req.kind = "UserTweetsAndReplies"
         /\ log[i].resp.tag = "Page"
         /\ FatalEnvelope(log[i].resp.errors)) =>
            /\ Returned
            /\ result = Err(TwitterJSONError(log[i].resp.errors[1].code,
                                             log[i].resp.errors[1].message))

\* C8: when the first error of the profile lookup has a code other than 37,
\* User::new fails with the API error of that code and message, the crawl
\* returns it, and no timeline page and no thread is ever requested.
C8_FatalProfileEnvelope ==
    (req # None /\ FatalEnvelope(req.val.errors)) =>
        /\ Returned
        /\ result = Err(TwitterJSONError(req.val.errors[1].code,
                                         req.val.errors[1].message))
        /\ NumIssued("UserTweetsAndReplies") = 0
        /\ NumIssued("parse_thread") = 0

\* the lookup answered code 99 first and 37 second, and the crawl returned
\* the API error of code 99
C8_Witness ==
    /\ Returned
    /\ req # None
    /\ req.val.errors = <<E99, E37>>
    /\ result = Err(TwitterJSONError(99, "rate limited"))
    /\ Len(log) = 1

\* a rest_id that is numeric, not empty and not "0"
ValidRestId(rest_id) ==
    /\ rest_id # <<>>
    /\ rest_id # <<"0">>
    /\ \A i \in 1..Len(rest_id) : rest_id[i] \in Digits

\* User::new failed, and not in the transport
UserNewFailed ==
    Returned /\ user = None /\ result.tag = "Err" /\ result.err.kind # "Transport"

\* C9: with {code: 37} as the only error of the lookup, an available user
\* with a valid numeric rest_id and a well-formed join date, User::new
\* succeeds.
C9_IgnorableCodeStillSucceeds ==
    (/\ req # None
     /\ req.val.errors = <<E37>>
     /\ req.val.result.variant = "User"
     /\ ValidRestId(req.val.result.rest_id)
     /\ JoinDateParses(req.val.result.created)) => ~UserNewFailed

\* C10: for every available user whose rest_id is numeric, not empty and not
\* "0", with an acceptable envelope and a well-formed join date, User::new
\* succeeds and the id of the User is the integer rest_id spells.
C10_IdIsParsedRestId ==
    (/\ req # None
     /\ ~FatalEnvelope(req.val.errors)
     /\ req.val.result.variant = "User"
     /\ ValidRestId(req.val.result.rest_id)
     /\ JoinDateParses(req.val.result.created)) =>
        /\ ~UserNewFailed
        /\ user # None => user.val.id = ParseDigits(req.val.result.rest_id, 0)

\* C11: for every available user whose rest_id is empty or "0" (with an
\* acceptable envelope and a well-formed join date), User::new fails with
\* TwitterBadRestId and with no other error, and never returns a User.
C11_BadRestIdRejected ==
    (/\ req # None
     /\ ~FatalEnvelope(req.val.errors)
     /\ req.val.result.variant = "User"
     /\ req.val.result.rest_id \in {<<>>, <<"0">>}
     /\ JoinDateParses(req.val.result.created)) =>
        /\ user = None
        /\ (Returned /\ result.err.kind # "Transport") =>
              result = Err(TwitterBadRestId(req.val.result.rest_id))

\* a Tweet entry whose payload is a Tombstone
TombstoneTweet(entry) ==
    entry.kind = "Tweet" /\ entry.tweet_results.variant = "Tombstone"

\* the thread expander was called at entry i of the parse loop
ExpandedAt(i) ==
    \E k \in 1..Len(log) : log[k].req.kind = "parse_thread" /\ log[k].idx = i

\* C12: a Tweet entry whose payload is a Tombstone is never an error: the
\* thread expander is never called for it, the store holds the successful
\* expansions of the other entries and nothing else, and the loop goes on
\* with the entries after it, so that the crawl returns Ok with every later
\* expandable entry expanded.
C12_TombstoneTweetSkipped ==
    LET es == AllEntries(timelines_requests) IN
    \A i \in 1..Len(es) :
        TombstoneTweet(es[i]) =>
            /\ ~ExpandedAt(i)
            /\ pc = "parse_thread" => idx # i
            /\ tweets = UNION {x.tweets : x \in Expansions}
            /\ users = UNION {x.users : x \in Expansions}
            /\ Returned =>
                  /\ result = Ok(users, tweets)
                  /\ \A j \in (i + 1)..Len(es) :
                        CallsExpander(es[j]) => ExpandedAt(j)

\* the crawl returned a non-empty store after a Tombstone Tweet entry: the
\* entry after the Tombstone was expanded
C12_Witness ==
    /\ ReturnedOk
    /\ result.tweets # {}
    /\ LET es == AllEntries(timelines_requests) IN
       \E i \in 1..(Len(es) - 1) :
          /\ TombstoneTweet(es[i])
          /\ \E k \in 1..Len(log) :
                /\ log[k].req.kind = "parse_thread"
                /\ log[k].idx = i + 1
                /\ log[k].resp.tag = "Ok"

\* C13: at most one request of the crawl is in flight at any time and none
\* once it returned; every step of the crawl is the completion of the one
\* request in flight, and only after it the next request is issued; the
\* store changes only in the step that completes a thread expansion, before
\* the next request is issued.
C13_OneRequestInFlight ==
    /\ [](/\ Cardinality(inflight) <= 1
          /\ Returned <=> inflight = {})
    /\ [][/\ Len(log') = Len(log) + 1
          /\ inflight = {log'[Len(log')].req}
          /\ Cardinality(inflight') <= 1
          /\ (tweets' # tweets \/ users' # users) =>
                /\ log'[Len(log')].req.kind = "parse_thread"
                /\ log'[Len(log')].resp.tag = "Ok"
                /\ tweets' = append(tweets, log'[Len(log')].resp.tweets)
                /\ users' = append(users, log'[Len(log')].resp.users)]_vars

\* after a page request, a walker request and a merged thread expansion, the
\* next thread expansion is the one request in flight
C13_Witness ==
    /\ pc = "parse_thread"
    /\ Cardinality(inflight) = 1
    /\ tweets # {}
    /\ Len(EventsOf("UserTweetsAndReplies")) >= 2
    /\ Len(EventsOf("parse_thread")) >= 1

\* C14: json_request_filter_errors looks at the first error only.  For every
\* page the walker received: with no error, or with 37 as the first code
\* (whatever follows), the check is Ok and the page is kept; with a first code
\* c other than 37 (even when 37 follows) the check is the API error of c and
\* of the first message, and scroll has returned that error.
C14_FirstErrorOnly ==
    \A i \in 1..Len(log) :
        log[i].resp.tag = "Page" =>
            LET errors == log[i].resp.errors IN
            IF errors = <<>> \/ errors[1].code = 37
            THEN /\ json_request_filter_errors(log[i].resp) = None
                 /\ pc = "scroll" => requests[Len(log) + 1 - i] = log[i].resp
                 /\ Returned => (result.tag = "Err" \/
                                   result.requests[Len(log) + 1 - i] = log[i].resp)
            ELSE /\ json_request_filter_errors(log[i].resp) =
                        Some(TwitterJSONError(errors[1].code, errors[1].message))
                 /\ i = Len(log)
                 /\ Returned
                 /\ result = Err(TwitterJSONError(errors[1].code, errors[1].message))

\* the walker kept a page whose errors are 37 then 99, and failed with the
\* API error of code 99 on a page whose errors are 99 then 37
C14_Witness ==
    /\ Returned
    /\ Len(log) = 2
    /\ log[1].resp.tag = "Page"
    /\ log[1].resp.errors = <<E37, E99>>
    /\ requests = <<log[1].resp>>
    /\ log[2].resp.tag = "Page"
    /\ log[2].resp.errors = <<E99, E37>>
    /\ result = Err(TwitterJSONError(99, "rate limited"))

\* the thread expansions called at entry i of the parse loop, in order
EventsAt(i) ==
    SelectSeq(log, LAMBDA e : e.req.kind = "parse_thread" /\ e.idx = i)

\* C15: when the crawl has returned, a conversation entry with no item has
\* caused no call of the thread expander and no error; one whose first and
\* last items are resolved tweets and whose expansions all succeeded has
\* caused one call, for the first item, when the first and the last item are
\* equal (a one-item thread included), and two calls, for the first item and
\* then for the last, when they differ.
C15_OncePerBoundary ==
    LET es == AllEntries(timelines_requests) IN
    Returned =>
        \A i \in 1..Len(es) :
            es[i].kind = "HomeConversation" =>
                LET items == es[i].items
                    first == items[1]
                    last == items[Len(items)]
                    calls == EventsAt(i)
                IN  IF items = <<>>
                    THEN calls = <<>> /\ result.tag = "Ok"
                    ELSE (/\ first.variant = "Ok"
                          /\ last.variant = "Ok"
                          /\ \A k \in 1..Len(calls) : calls[k].resp.tag = "Ok") =>
                            IF first = last
                            THEN /\ Len(calls) = 1
                                 /\ calls[1].req = ParseThreadReq(first.rest_id)
                            ELSE /\ Len(calls) = 2
                                 /\ calls[1].req = ParseThreadReq(first.rest_id)
                                 /\ calls[1].stage = "first"
                                 /\ calls[2].req = ParseThreadReq(last.rest_id)
                                 /\ calls[2].stage = "last"

\* the crawl returned after a one-item thread and a three-item thread with
\* equal boundaries (one call each), a thread with no item (no call) and a
\* thread with two different boundaries (two calls), all of them successful
C15_Witness ==
    LET es == AllEntries(timelines_requests) IN
    /\ ReturnedOk
    /\ \A k \in 1..Len(log) : log[k].resp.tag # "Err"
    /\ \E i, j, m, n \in 1..Len(es) :
          /\ es[i].kind = "HomeConversation" /\ Len(es[i].items) = 1
          /\ Len(EventsAt(i)) = 1
          /\ es[j].kind = "HomeConversation" /\ Len(es[j].items) = 3
          /\ Len(EventsAt(j)) = 1
          /\ es[m].kind = "HomeConversation" /\ es[m].items = <<>>
          /\ es[n].kind = "HomeConversation" /\ Len(es[n].items) = 2
          /\ Len(EventsAt(n)) = 2

\* C16: a Tombstone boundary item of a conversation entry skips that item
\* only: when the crawl has returned, for every conversation entry whose first
\* item is a Tombstone and whose last item is a resolved tweet, the thread
\* expander has been called for the id of the last item.
C16_TombstoneSkipsItemOnly ==
    LET es == AllEntries(timelines_requests) IN
    Returned =>
        \A i \in 1..Len(es) :
            (/\ es[i].kind = "HomeConversation"
             /\ es[i].items # <<>>
             /\ es[i].items[1].variant = "Tombstone"
             /\ es[i].items[Len(es[i].items)].variant = "Ok") =>
                \E k \in 1..Len(EventsAt(i)) :
                    EventsAt(i)[k].req =
                        ParseThreadReq(es[i].items[Len(es[i].items)].rest_id)

\* C17: for every page the walker received, filter_cursor is the value of the
\* first Cursor entry whose type label starts with "Bottom", in the order of
\* the instructions and of the entries of the "add entries" instructions; it
\* is never the value of a Cursor entry with another label, and it is None
\* exactly when the page has no such Bottom cursor.
C17_FirstBottomCursor ==
    \A i \in 1..Len(log) :
        log[i].resp.tag = "Page" =>
            LET page == log[i].resp IN
            /\ filter_cursor(page) =
                  IF HasBottom(page) THEN Some(FirstBottom(page)) ELSE None
            /\ filter_cursor(page) = None <=> ~HasBottom(page)
            /\ filter_cursor(page) # None =>
                  \E p \in BottomPlaces(page) :
                      EntryAt(page, p).value = filter_cursor(page).val

\* the walker received a page with two bottom cursors, in two instructions,
\* and requested the next page with the first of them; that page had a Top
\* cursor and no bottom cursor, and the walker found no cursor on it
C17_Witness ==
    /\ pc = "scroll"
    /\ Len(log) = 2
    /\ log[1].resp.tag = "Page"
    /\ Cardinality({p[1] : p \in BottomPlaces(log[1].resp)}) = 2
    /\ log[2].req.cursor = Some(FirstBottom(log[1].resp))
    /\ log[2].resp.tag = "Page"
    /\ ~HasBottom(log[2].resp)
    /\ \E p \in AddPlaces(log[2].resp) :
          /\ EntryAt(log[2].resp, p).kind = "Cursor"
          /\ EntryAt(log[2].resp, p).cursor_type = Top
    /\ break_on_next

\* the requests of the walker issued so far, in order, answered or in flight
Issued ==
    [i \in 1..Len(log) |-> log[i].req]
        \o (IF pc = "scroll" THEN <<TheRequest>> ELSE <<>>)

\* C18: the first request of scroll carries the starting cursor of its
\* caller; whenever the page answered to request n has a bottom cursor,
\* request n+1 carries that cursor, and so never the cursor of an earlier
\* page.
C18_CursorFromPreviousPage ==
    /\ Issued # <<>> /\ Issued[1].cursor = Some(scroll_calls[1].first_cursor)
    /\ \A n \in 1..(Len(Issued) - 1) :
          (log[n].resp.tag = "Page" /\ HasBottom(log[n].resp)) =>
              Issued[n + 1].cursor = Some(FirstBottom(log[n].resp))

\* three requests of the walker with three different cursors in a row: the
\* second and the third carry the cursors of the first and the second page,
\* which differ from each other and from the cursors of the requests that
\* fetched them
C18_Witness ==
    /\ Len(Issued) = 3
    /\ Len(log) >= 2
    /\ HasBottom(log[1].resp)
    /\ HasBottom(log[2].resp)
    /\ Issued[2].cursor = Some(FirstBottom(log[1].resp))
    /\ Issued[3].cursor = Some(FirstBottom(log[2].resp))
    /\ Issued[1].cursor # Issued[2].cursor
    /\ Issued[2].cursor # Issued[3].cursor

\* the pages the walker kept that carry no bottom cursor
CursorlessPages ==
    {i \in 1..Len(log) :
        /\ log[i].resp.tag = "Page"
        /\ ~FatalEnvelope(log[i].resp.errors)
        /\ ~HasBottom(log[i].resp)}

\* C19: when a page the walker fetched has no bottom cursor, the walker
\* issues one more request and no request after it; that request carries
\* the cursor of the request that fetched the cursor-less page; once it is
\* answered the walker has returned, and when the answer is a usable page,
\* with or without a bottom cursor, it is in the result, at the front.
C19_OneLookaheadSameCursor ==
    CursorlessPages # {} =>
        LET k == CHOOSE i \in CursorlessPages : \A j \in CursorlessPages : i <= j IN
        /\ Len(log) + Cardinality(inflight) = k + 1
        /\ Len(log) = k => /\ pc = "scroll"
                           /\ TheRequest.cursor = log[k].req.cursor
        /\ Len(log) = k + 1 =>
              /\ log[k + 1].req.cursor = log[k].req.cursor
              /\ Returned
              /\ (/\ log[k + 1].resp.tag = "Page"
                  /\ ~FatalEnvelope(log[k + 1].resp.errors)) =>
                    /\ result.tag = "Ok"
                    /\ Len(result.requests) = k + 1
                    /\ result.requests[1] = log[k + 1].resp
                    /\ result.requests[2] = log[k].resp

\* the walker returned after a page with a bottom cursor, a page with none
\* and the lookahead, whose answer had a bottom cursor that was not followed
C19_Witness ==
    /\ ReturnedOk
    /\ Len(log) = 3
    /\ HasBottom(log[1].resp)
    /\ CursorlessPages = {2}
    /\ log[2].req.cursor # log[1].req.cursor
    /\ log[3].req.cursor = log[2].req.cursor
    /\ HasBottom(log[3].resp)
    /\ result.requests[1] = log[3].resp

\* the decoder returned the Entry
OkEntry(entry) == [tag |-> "Ok", entry |-> entry]

\* the place of a key in an object
KeyAt(map, key) == CHOOSE i \in DOMAIN map : map[i].key = key

\* entryId, with a known prefix, comes before content, whose value is valid
\* for that prefix; no key the decoder does not know comes before content
ResolvableEntry(map) ==
    /\ \E i, j \in DOMAIN map :
          /\ i < j
          /\ map[i].key = "entryId"
          /\ map[j].key = "content"
          /\ ContentType(map[i].string) = Some(map[j].content.type)
    /\ \A i \in 1..KeyAt(map, "content") : map[i].key # "__typename"

\* C20: decoding an entry object in which entryId comes before content and
\* the content is valid returns the variant the entryId resolves to, made of
\* the content: Tweet for "tweet-", the conversation variant for
\* "homeConversation-", Cursor for "cursor-"; it never returns an error.
C20_DecodeReturnsVariant ==
    (Returned /\ de # NoDecode /\ ResolvableEntry(de.map)) =>
        result = OkEntry(de.map[KeyAt(de.map, "content")].content.entry)

\* de::Error::unknown_variant naming the identifier
unknown_variant(name) == [kind |-> "unknown_variant", variant |-> name]

HasKey(map, key) == \E i \in DOMAIN map : map[i].key = key

\* the keys read before content are keys the decoder knows
KnownKeysBeforeContent(map) ==
    \A i \in 1..KeyAt(map, "content") : map[i].key # "__typename"

\* C21: decoding fails and produces no Entry when the entryId has none of
\* the three prefixes (with the unknown-variant error that names the
\* entryId), when content is reached before any entryId was recorded, and
\* when the object has no content field.
C21_DecodeFailsHard ==
    (Returned /\ de # NoDecode) =>
        LET map == de.map IN
        /\ ~HasKey(map, "content") => result.tag = "Err"
        /\ (/\ HasKey(map, "content")
            /\ KnownKeysBeforeContent(map)
            /\ ~(HasKey(map, "entryId")
                    /\ KeyAt(map, "entryId") < KeyAt(map, "content"))) =>
                result.tag = "Err"
        /\ (/\ HasKey(map, "content")
            /\ KnownKeysBeforeContent(map)
            /\ HasKey(map, "entryId")
            /\ KeyAt(map, "entryId") < KeyAt(map, "content")
            /\ ContentType(map[KeyAt(map, "entryId")].string) = None) =>
                result = Err(unknown_variant(map[KeyAt(map, "entryId")].string))

\* C22: when the lookup answers the unavailable-user variant, User::new has
\* returned without a redirect request: with UserResultError when the
\* envelope is acceptable (empty, or 37 first), and with the API error of the
\* first code when the envelope is fatal, the envelope being checked first.
C22_UnavailableUser ==
    (req # None /\ req.val.result.variant = "UserUnavailable") =>
        /\ Returned
        /\ user = None
        /\ NumIssued("redirect") = 0
        /\ result =
              IF FatalEnvelope(req.val.errors)
              THEN Err(TwitterJSONError(req.val.errors[1].code,
                                        req.val.errors[1].message))
              ELSE Err(UserResultError)

\* the lookup answered an unavailable user with 37 then 99 as its errors, and
\* User::new returned UserResultError after that one request
C22_Witness ==
    /\ Returned
    /\ req # None
    /\ req.val.result = UserUnavailable
    /\ req.val.errors = <<E37, E99>>
    /\ result = Err(UserResultError)
    /\ Len(log) = 1
    /\ inflight = {}

\* the ids of the resolved tweets a page holds in the Tweet and conversation
\* entries of its "add entries" instructions
ExpandableIds(page) ==
    ResolvedTweetIds(page)
        \cup UNION {{EntryAt(page, p).items[n].rest_id :
                        n \in {n \in 1..Len(EntryAt(page, p).items) :
                                  EntryAt(page, p).items[n].variant = "Ok"}} :
                    p \in {p \in AddPlaces(page) :
                             EntryAt(page, p).kind = "HomeConversation"}}

\* the thread expansions called so far, answered or in flight
ExpanderCalls ==
    {log[k].req : k \in {k \in 1..Len(log) : log[k].req.kind = "parse_thread"}}
        \cup {q \in inflight : q.kind = "parse_thread"}

\* C23: in the processing loop a Cursor entry and an instruction other than
\* "add entries" (cache-clear, pin) cause no call of the thread expander and
\* leave the store alone: every call is for a resolved tweet of a Tweet or
\* conversation entry of an "add entries" instruction, is made at such an
\* entry, and the store is the union of the successful expansions.
C23_OnlyAddEntriesExpand ==
    LET es == AllEntries(timelines_requests)
        ids == UNION {ExpandableIds(timelines_requests[n]) :
                         n \in 1..Len(timelines_requests)}
    IN  /\ \A q \in ExpanderCalls : q.id \in ids
        /\ \A i \in 1..Len(es) : es[i].kind = "Cursor" => ~ExpandedAt(i)
        /\ pc = "parse_thread" => es[idx].kind # "Cursor"
        /\ tweets = UNION {x.tweets : x \in Expansions}
        /\ users = UNION {x.users : x \in Expansions}

\* the crawl returned after a page with a cache-clear, a pinned tweet t1 and
\* cursors among its entries: the tweet t2 of its entries was expanded, the
\* pinned tweet was not
C23_Witness ==
    /\ ReturnedOk
    /\ result.tweets # {}
    /\ \E n \in 1..Len(timelines_requests) :
          LET page == timelines_requests[n] IN
          /\ \E i, j \in 1..Len(page.instructions) :
                /\ page.instructions[i].type = "TimelineClearCache"
                /\ page.instructions[j].type = "TimelinePinEntry"
                /\ page.instructions[j].tweet_results = TweetOk("t1")
          /\ \E p \in AddPlaces(page) : EntryAt(page, p).kind = "Cursor"
    /\ ParseThreadReq("t2") \in ExpanderCalls
    /\ ParseThreadReq("t1") \notin ExpanderCalls

\* the walker's fetches that failed: in the transport, or with a fatal envelope
FailedWalkerFetches ==
    {k \in 1..Len(log) :
        /\ log[k].req.kind = "UserTweetsAndReplies"
        /\ log[k].req.cursor # None
        /\ \/ log[k].resp.tag = "TransportFailure"
           \/ FatalEnvelope(log[k].resp.errors)}

\* the error scroll returns for a failed fetch
FetchError(resp) ==
    IF resp.tag = "TransportFailure" THEN TransportError
    ELSE TwitterJSONError(resp.errors[1].code, resp.errors[1].message)

\* C24: no thread expansion is called before every page of the crawl has
\* been fetched: no page request follows or accompanies an expander call.
\* When a fetch of the walker fails (transport error or fatal envelope) the
\* crawl has returned that error, none of the pages fetched before it has
\* reached the processing loop, and no thread expansion was called.
C24_FetchAllThenExpand ==
    /\ \A i, j \in 1..Len(log) :
          (i < j /\ log[i].req.kind = "parse_thread") =>
              log[j].req.kind = "parse_thread"
    /\ NumIssued("parse_thread") > 0 =>
          \A q \in inflight : q.kind = "parse_thread"
    /\ \A k \in FailedWalkerFetches :
          /\ k = Len(log)
          /\ Returned
          /\ result = Err(FetchError(log[k].resp))
          /\ timelines_requests = <<>>
          /\ NumIssued("parse_thread") = 0
          /\ tweets = {} /\ users = {}

\* the walker had fetched a page with a resolved tweet when its next fetch
\* failed with a fatal envelope: the crawl returned that error, with no
\* thread expanded
C24_Witness ==
    /\ Returned
    /\ Len(log) = 3
    /\ log[2].resp.tag = "Page"
    /\ ResolvedTweetIds(log[2].resp) # {}
    /\ requests = <<log[2].resp>>
    /\ log[3].resp.tag = "Page"
    /\ log[3].resp.errors = <<E99>>
    /\ result = Err(TwitterJSONError(99, "rate limited"))
    /\ NumIssued("parse_thread") = 0

\* a fetch of the walker failed: in the transport, or with a fatal envelope
FetchFailed ==
    \E k \in 1..Len(log) :
        \/ log[k].resp.tag = "TransportFailure"
        \/ FatalEnvelope(log[k].resp.errors)

\* every page fetched so far is usable and carries a bottom cursor
AllWithBottom ==
    \A k \in 1..Len(log) :
        /\ log[k].resp.tag = "Page"
        /\ ~FatalEnvelope(log[k].resp.errors)
        /\ HasBottom(log[k].resp)

\* C25: scroll returns only when a fetch failed or a fetched page had no
\* bottom cursor, and in both cases it does return: at once on a failure,
\* after the lookahead on a cursor-less page.  As long as every page carries
\* a bottom cursor it has not returned and its next request is in flight,
\* whatever the number of pages (up to the bound of the model) and also when
\* the cursor is one it has requested before: it never completes.
C25_TerminatesOnlyOnFailureOrNoCursor ==
    /\ [](Returned => (FetchFailed \/ CursorlessPages # {}))
    /\ [](FetchFailed => Returned)
    /\ [](AllWithBottom =>
            /\ pc = "scroll"
            /\ Len(log) > 0 =>
                  inflight = {UserTweetsAndRepliesReq(
                                 42, Some(FirstBottom(log[Len(log)].resp)))})
    /\ (CursorlessPages # {} /\ Len(log) < MaxScroll) ~> Returned

\* every page so far carried a bottom cursor, the last of them the cursor of
\* the first request: the walker is requesting the first page again
C25_Witness ==
    /\ Len(log) = MaxScroll
    /\ AllWithBottom
    /\ pc = "scroll"
    /\ inflight = {log[1].req}
    /\ log[2].req # log[1].req

\* C26: when the crawl has returned, for every conversation entry whose first
\* and last items are different resolved tweets and whose first expansion
\* failed, the thread expander has been called for the last item, and what a
\* successful call returned is in the store.
C26_LastBoundaryAfterFirstFailed ==
    LET es == AllEntries(timelines_requests) IN
    Returned =>
        \A i \in 1..Len(es) :
            (/\ es[i].kind = "HomeConversation"
             /\ es[i].items # <<>>
             /\ es[i].items[1].variant = "Ok"
             /\ es[i].items[Len(es[i].items)].variant = "Ok"
             /\ es[i].items[1] # es[i].items[Len(es[i].items)]
             /\ EventsAt(i) # <<>>
             /\ EventsAt(i)[1].stage = "first"
             /\ EventsAt(i)[1].resp.tag = "Err") =>
                \E k \in 1..Len(EventsAt(i)) :
                    /\ EventsAt(i)[k].stage = "last"
                    /\ EventsAt(i)[k].req =
                          ParseThreadReq(es[i].items[Len(es[i].items)].rest_id)
                    /\ EventsAt(i)[k].resp.tag = "Ok" =>
                          /\ EventsAt(i)[k].resp.tweets \subseteq result.tweets
                          /\ EventsAt(i)[k].resp.users \subseteq result.users

====
